---------------------------- MODULE Spec2Model ----------------------------
(***************************************************************************)
(* A model of FitLoop (pytorch_lightning/loops/fit_loop.py): the outer     *)
(* training loop over epochs, its stop condition (done, skip), the epoch   *)
(* progress counter, the restart reconciliation and the selection of the   *)
(* data fetcher.                                                            *)
(*                                                                         *)
(* The phase methods of FitLoop are translated from fit_loop.py.  What     *)
(* drives them (Loop.run, the trainer's exit handling), the Progress       *)
(* tracker, _is_max_limit_reached and the inner epoch loop are not part of *)
(* fit_loop.py; they follow the design document (sections 4.1, 4.3, 4.4,   *)
(* 7) and are marked as such where they are defined.                       *)
(*                                                                         *)
(* A phase method is cut at the places where user code (callbacks, model   *)
(* hooks, the inner loop) runs, since that code can raise the stop flag or *)
(* an exception there; pc is the position of the single thread of control. *)
(***************************************************************************)
EXTENDS Integers, Sequences, FiniteSets, TLC

\* Bounds of the model.
MaxMin == 1             \* min_epochs in 0..MaxMin, min_steps unset or in 0..MaxMin
MaxMax == 2             \* max_epochs and max_steps in -1..MaxMax
MaxStepsPerEpoch == 2   \* optimizer steps one epoch can take: 1..MaxStepsPerEpoch
MaxFaults == 1          \* exceptions over one behaviour

\* No run with a finite limit starts an epoch with this many epochs ready (at
\* most MaxFaults epochs are left unfinished, and fewer than MaxMax are
\* processed when an epoch starts); it stops the runs that have no limit.
EpochCap == MaxMax + MaxFaults

VARIABLES
    \* FitLoop and its epoch loop
    min_epochs,             \* self.min_epochs
    max_epochs,             \* self.max_epochs
    min_steps,              \* self.epoch_loop.min_steps : Optional[int]
    max_steps,              \* self.epoch_loop.max_steps
    global_step,            \* self.epoch_loop.global_step
    _batches_that_stepped,  \* self.epoch_loop._batches_that_stepped
    epoch_progress,         \* self.epoch_progress.current
    restarting,             \* Loop.restarting
    _is_fresh_start_epoch,  \* self._is_fresh_start_epoch
    _outputs,               \* self._outputs
    epoch_end_outputs,      \* what training_epoch_end returned (on_advance_end)
    _data_fetcher,          \* self._data_fetcher
    \* the trainer
    trainer_should_stop,    \* self.trainer.should_stop
    num_training_batches,   \* self.trainer.num_training_batches
    limit_train_batches,    \* self.trainer.limit_train_batches
    training_epoch_end_overridden, \* is_overridden("training_epoch_end", model)
    capabilities,           \* what _select_data_fetcher reads, while on_run_start runs
    signal_received,        \* the signal _exit_gracefully_on_signal tests
    _should_reload_train_dl, \* trainer._data_connector._should_reload_train_dl
    \* control
    pc,                     \* position of the thread of control
    exit_kind,              \* how the last run left the loop
    \* history, per run
    stop_raised,            \* should_stop has been true during this run
    hooks_called,           \* <<party, hook>> notified during this run
    dataloader_calls,       \* data-source construction calls of this run
    teardown_calls,         \* teardown() calls of this run
    restarting_assigned,    \* the value last assigned to restarting, if any
    faults,                 \* exceptions so far
    config_result,          \* the last constructor or limit setter call
    fresh_run,              \* this run was entered with nothing done before
    phases_run,             \* how often this run has entered each phase
    epoch_entry,            \* epoch_progress when this epoch was entered
    stepped_entry,          \* _batches_that_stepped when on_advance_end was
                            \* last entered
    fetcher_log,            \* the fetchers of this run: constructed, torn down,
                            \* dropped (the reference overwritten) while active
    phase_trace             \* the calls the current phase method has made

vars == << min_epochs, max_epochs, min_steps, max_steps, global_step,
           _batches_that_stepped, epoch_progress, restarting,
           _is_fresh_start_epoch, _outputs, _data_fetcher,
           trainer_should_stop, num_training_batches, limit_train_batches,
           training_epoch_end_overridden, capabilities, signal_received,
           pc, exit_kind, stop_raised, hooks_called, dataloader_calls,
           teardown_calls, faults, epoch_end_outputs, restarting_assigned,
           _should_reload_train_dl, phase_trace, config_result, fresh_run,
           phases_run, epoch_entry, stepped_entry, fetcher_log >>

limits == << min_epochs, max_epochs, min_steps, max_steps >>
config == << limit_train_batches, training_epoch_end_overridden >>

-----------------------------------------------------------------------------
\* Values

\* Optional[int]: None, or an integer.
None == [set |-> FALSE, val |-> 0]
Some(n) == [set |-> TRUE, val |-> n]

\* Python's truth value of an Optional[int]: None and 0 are false.
Truthy(o) == o.set /\ o.val # 0

NoFetcher == [kind |-> "None", prefetch_batches |-> 0]
NoFetchers == [constructed |-> 0, torn_down |-> 0, dropped |-> 0]
NoPhases == [on_advance_start |-> 0, advance |-> 0, on_advance_end |-> 0]
NoCall == [call |-> "none", raised |-> "none"]
NoCapabilities == [read |-> FALSE, dataloader_iter |-> FALSE,
                   inter_batch_parallelism |-> FALSE, gpu |-> FALSE]


-----------------------------------------------------------------------------
\* The progress tracker (trainer/progress.py is not part of fit_loop.py;
\* design document, section 4.1: each increment adds exactly 1 to its field).

increment_ready(p) == [p EXCEPT !.ready = @ + 1]
increment_started(p) == [p EXCEPT !.started = @ + 1]
increment_processed(p) == [p EXCEPT !.processed = @ + 1]
increment_completed(p) == [p EXCEPT !.completed = @ + 1]

\* Section 4.1: on restart the completed count is advanced to the processed
\* count.
reset_on_restart(p) == [p EXCEPT !.completed = p.processed]

\* Section 4.3: a limit of -1 is never reached.
_is_max_limit_reached(current, maximum) == maximum # -1 /\ current >= maximum

-----------------------------------------------------------------------------
\* FitLoop.done and FitLoop.skip

stop_steps == _is_max_limit_reached(global_step, max_steps)

\* stop_epochs with > for >=.
stop_epochs_strict ==
    max_epochs # -1 /\ epoch_progress.processed > max_epochs

\* stop_epochs tested on the completed count.
stop_epochs_on_completed ==
    _is_max_limit_reached(epoch_progress.completed, max_epochs)

stop_epochs == _is_max_limit_reached(epoch_progress.processed, max_epochs)

\* met_min_epochs with > for >=.
met_min_epochs_strict ==
    IF min_epochs # 0 THEN epoch_progress.processed > min_epochs ELSE TRUE

\* `processed >= self.min_epochs if self.min_epochs else True`
met_min_epochs ==
    IF min_epochs # 0 THEN epoch_progress.processed >= min_epochs ELSE TRUE

\* `global_step >= self.min_steps if self.min_steps else True`
met_min_steps ==
    IF Truthy(min_steps) THEN global_step >= min_steps.val ELSE TRUE

\* should_stop without the minimum guards.
should_stop_ignoring_minimum == trainer_should_stop

\* The local should_stop of done.
should_stop ==
    IF trainer_should_stop
    THEN (IF met_min_epochs /\ met_min_steps THEN TRUE ELSE FALSE)
    ELSE FALSE

\* The write-back left out: the flag keeps its value.
should_stop_not_written == trainer_should_stop

\* `self.trainer.should_stop = should_stop`: what an evaluation of done
\* leaves in the stop flag.
should_stop_written == should_stop

\* done without the test of max_epochs.
done_without_stop_epochs ==
    stop_steps \/ should_stop \/ num_training_batches = "zero"

\* The value done returns.
done ==
    stop_steps \/ should_stop \/ stop_epochs \/ num_training_batches = "zero"

\* skip without the test of limit_train_batches.
skip_done_only == done

\* The value skip returns; it evaluates done first.
skip == done \/ limit_train_batches = 0

-----------------------------------------------------------------------------
\* _select_data_fetcher and FitLoop.prefetch_batches

\* The selection with the environment flag tested before the signature.
_select_data_fetcher_flag_first(dataloader_iter, inter_batch_parallelism, gpu) ==
    IF inter_batch_parallelism
    THEN (IF ~gpu THEN "MisconfigurationException"
                  ELSE "InterBatchParallelDataFetcher")
    ELSE IF dataloader_iter THEN "DataLoaderIterDataFetcher"
                            ELSE "DataFetcher"

_select_data_fetcher(dataloader_iter, inter_batch_parallelism, gpu) ==
    IF dataloader_iter THEN "DataLoaderIterDataFetcher"
    ELSE IF inter_batch_parallelism
         THEN (IF ~gpu THEN "MisconfigurationException"
                       ELSE "InterBatchParallelDataFetcher")
         ELSE "DataFetcher"

prefetch_batches(n_batches, inter_batch_parallelism) ==
    IF n_batches = "inf" \/ inter_batch_parallelism THEN 1 ELSE 0

-----------------------------------------------------------------------------
\* Positions of the thread of control

\* Where user code runs: callbacks, model hooks, the inner loop.
UserCodePcs == {"on_train_start", "epoch_start_hooks", "advance",
                "epoch_end_hooks", "on_run_end"}

\* Where a call the loop makes can raise: user code, and the logging of the
\* epoch metrics, which writes to the loggers.
RaisingPcs == UserCodePcs \cup {"update_train_epoch_metrics"}

RunningPcs == {"reset", "on_run_start", "on_train_start", "done_check",
               "on_advance_start", "epoch_start_hooks", "advance",
               "on_advance_end", "epoch_end_hooks",
               "update_train_epoch_metrics", "on_run_end", "teardown"}

Parties(ps, hook) == {<<p, hook>> : p \in ps}

\* One hook called on each of the parties ps, in the order of ps.
Calls(ps, hook) == [i \in 1..Len(ps) |-> <<ps[i], hook>>]

\* The hooks of on_run_start.
on_train_start_calls ==
    Calls(<<"callback", "model", "strategy">>, "on_train_start")

\* The hooks of on_advance_start: on_epoch_start, then on_train_epoch_start.
epoch_start_calls ==
    << <<"logger", "on_epoch_start">> >>
       \o Calls(<<"callback", "model">>, "on_epoch_start")
       \o Calls(<<"callback", "model">>, "on_train_epoch_start")

\* The end-of-epoch hooks with the model's hook called before the callbacks'.
epoch_end_calls_model_first ==
    Calls(<<"model", "callback">>, "on_train_epoch_end")
       \o Calls(<<"model", "callback">>, "on_epoch_end")
       \o << <<"logger", "on_epoch_end">> >>

\* The end-of-epoch hooks of on_advance_end: on_train_epoch_end, then
\* on_epoch_end, then the logger connector's on_epoch_end.
epoch_end_calls ==
    Calls(<<"callback", "model">>, "on_train_epoch_end")
       \o Calls(<<"callback", "model">>, "on_epoch_end")
       \o << <<"logger", "on_epoch_end">> >>

\* The hooks of on_run_end.
on_train_end_calls ==
    Calls(<<"callback", "model", "strategy">>, "on_train_end")

-----------------------------------------------------------------------------
Init ==
    /\ min_epochs \in 0..MaxMin
    /\ max_epochs \in -1..MaxMax
    /\ min_steps \in {None} \cup {Some(n) : n \in 0..MaxMin}
    /\ max_steps \in -1..MaxMax
    /\ global_step = 0
    /\ _batches_that_stepped = 0
    /\ epoch_progress = [ready |-> 0, started |-> 0, processed |-> 0,
                         completed |-> 0]
    /\ restarting = FALSE
    /\ _is_fresh_start_epoch = TRUE
    /\ _outputs = << >>
    /\ epoch_end_outputs = "None"
    /\ _data_fetcher = NoFetcher
    /\ trainer_should_stop = FALSE
    /\ num_training_batches = "inf"
    /\ limit_train_batches \in {0, 1}
    /\ training_epoch_end_overridden \in BOOLEAN
    /\ capabilities = NoCapabilities
    /\ signal_received = FALSE
    /\ pc = "idle"
    /\ exit_kind = "none"
    /\ stop_raised = FALSE
    /\ hooks_called = {}
    /\ dataloader_calls = {}
    /\ teardown_calls = 0
    /\ restarting_assigned = "none"
    /\ faults = 0
    /\ _should_reload_train_dl = FALSE
    /\ phase_trace = << >>
    /\ config_result = NoCall
    /\ fresh_run = FALSE
    /\ phases_run = NoPhases
    /\ epoch_entry = epoch_progress
    /\ stepped_entry = _batches_that_stepped
    /\ fetcher_log = NoFetchers

-----------------------------------------------------------------------------
\* The constructor and the max_steps setter.  The loop is constructed and
\* its limits are set (the debugging connector uses the setter) before it
\* runs: both are called while no run has been made.

\* Limits a caller can pass that are not valid.
InvalidLimits == {-3, -2}

\* What a caller passes for max_epochs, and for max_steps when it is not None.
LimitInputs == InvalidLimits \cup (-1..MaxMax)

\* `if max_epochs < -1: raise MisconfigurationException`
max_epochs_rejected(value) == value < -1

\* The setter without its validation.
max_steps_unvalidated(value) == FALSE

\* `elif value < -1: raise MisconfigurationException`, for a value that is
\* not None.
max_steps_rejected(value) == value.set /\ value.val < -1

\* `if value is None: value = -1`, then `self.epoch_loop.max_steps = value`
max_steps_stored(value) == IF ~value.set THEN -1 ELSE value.val

NotYetRun == pc = "idle" /\ exit_kind = "none"

\* FitLoop(min_epochs=mn, max_epochs=mx).  A call that raises constructs
\* nothing: the loop in use stays as it is.  A new loop has a new epoch
\* loop, without step limits, and a new progress tracker (TrainingEpochLoop
\* and Progress are not part of fit_loop.py).
Construct(mn, mx) ==
    /\ NotYetRun
    /\ IF max_epochs_rejected(mx)
       THEN /\ config_result' = [call |-> "__init__",
                                 raised |-> "MisconfigurationException"]
            /\ UNCHANGED << limits, restarting, restarting_assigned >>
       ELSE /\ max_epochs' = mx
            /\ min_epochs' = mn
            /\ min_steps' = None
            /\ max_steps' = -1
            /\ restarting' = FALSE
            /\ restarting_assigned' = "none"
            /\ config_result' = [call |-> "__init__", raised |-> "none"]
    /\ UNCHANGED << config, global_step, _batches_that_stepped,
                    epoch_progress, _is_fresh_start_epoch, _outputs,
                    _data_fetcher, epoch_end_outputs, trainer_should_stop,
                    num_training_batches, capabilities, signal_received,
                    _should_reload_train_dl, pc, exit_kind, stop_raised,
                    hooks_called, dataloader_calls, teardown_calls, faults,
                    phase_trace, fresh_run, phases_run, epoch_entry,
                    fetcher_log, stepped_entry >>

\* fit_loop.max_steps = value
SetMaxSteps(value) ==
    /\ NotYetRun
    /\ IF max_steps_rejected(value)
       THEN /\ config_result' = [call |-> "max_steps",
                                 raised |-> "MisconfigurationException"]
            /\ UNCHANGED max_steps
       ELSE /\ max_steps' = max_steps_stored(value)
            /\ config_result' = [call |-> "max_steps", raised |-> "none"]
    /\ UNCHANGED << min_epochs, max_epochs, min_steps, config, global_step,
                    _batches_that_stepped, epoch_progress, restarting,
                    _is_fresh_start_epoch, _outputs, epoch_end_outputs,
                    _data_fetcher, trainer_should_stop,
                    num_training_batches, capabilities, signal_received,
                    _should_reload_train_dl, pc, exit_kind, stop_raised,
                    hooks_called, dataloader_calls, teardown_calls,
                    restarting_assigned, faults, phase_trace, fresh_run,
                    phases_run, epoch_entry, fetcher_log, stepped_entry >>

-----------------------------------------------------------------------------
\* The restarting setter of FitLoop, called when loop state has been
\* restored and before run().

\* any(values) for any(v != completed for v in values).
finished_before_on_train_end_truthy(p) ==
    \E v \in {p.ready, p.started, p.processed} : v # 0

\* `any(v != self.epoch_progress.current.completed for v in values)`
finished_before_on_train_end(p) ==
    \E v \in {p.ready, p.started, p.processed} : v # p.completed

\* The reconciliation with completed set from ready.
reconciled_from_ready(p) ==
    IF finished_before_on_train_end(p)
    THEN [p EXCEPT !.completed = p.ready]
    ELSE p

\* `if finished_before_on_train_end: completed = processed`
reconciled(p) ==
    IF finished_before_on_train_end(p)
    THEN [p EXCEPT !.completed = p.processed]
    ELSE p

\* The flag with the test inverted.
restarting_value_inverted(value, p) ==
    value /\ ~finished_before_on_train_end(p)

\* `restarting &= finished_before_on_train_end`
restarting_value(value, p) == value /\ finished_before_on_train_end(p)

SetRestarting(value) ==
    /\ pc = "idle"
    /\ epoch_progress' = reconciled(epoch_progress)
    /\ restarting' = restarting_value(value, epoch_progress)
    /\ restarting_assigned' = IF value THEN "True" ELSE "False"
    /\ UNCHANGED << limits, config, global_step, _batches_that_stepped,
                    _is_fresh_start_epoch, _outputs, _data_fetcher,
                    trainer_should_stop, num_training_batches, capabilities,
                    signal_received, pc, exit_kind, stop_raised,
                    hooks_called, dataloader_calls, teardown_calls, faults,
                    epoch_end_outputs, _should_reload_train_dl, phase_trace,
                    config_result, fresh_run, phases_run, epoch_entry,
                    fetcher_log, stepped_entry >>

-----------------------------------------------------------------------------
\* Loop.run, as far as FitLoop is concerned (loops/base.py is not part of
\* fit_loop.py; design document, section 4.4): skip is tested at entry, then
\* reset() and on_run_start(), then the three phases while done is false,
\* then on_run_end(); teardown() runs on every exit.

\* run() is entered: skip is evaluated, and with it done, which writes the
\* stop flag back.
Run ==
    /\ pc = "idle"
    /\ trainer_should_stop' = should_stop_written
    /\ pc' = IF skip THEN "teardown" ELSE "reset"
    /\ exit_kind' = IF skip THEN "skipped" ELSE "running"
    /\ stop_raised' = trainer_should_stop
    /\ hooks_called' = {}
    /\ dataloader_calls' = {}
    /\ teardown_calls' = 0
    /\ epoch_end_outputs' = "None"
    /\ restarting_assigned' = "none"
    /\ phase_trace' = << >>
    /\ config_result' = NoCall
    /\ fresh_run' = (/\ epoch_progress = [ready |-> 0, started |-> 0,
                                          processed |-> 0, completed |-> 0]
                     /\ global_step = 0)
    /\ phases_run' = NoPhases
    /\ epoch_entry' = epoch_progress
    /\ fetcher_log' = NoFetchers
    /\ UNCHANGED << limits, config, global_step, _batches_that_stepped,
                    epoch_progress, restarting, _is_fresh_start_epoch,
                    _outputs, _data_fetcher, num_training_batches,
                    capabilities, signal_received, faults,
                    _should_reload_train_dl, stepped_entry >>

\* FitLoop.reset
Reset ==
    /\ pc = "reset"
    /\ epoch_progress' = IF restarting THEN reset_on_restart(epoch_progress)
                                       ELSE epoch_progress
    /\ pc' = "on_run_start"
    /\ UNCHANGED << limits, config, global_step, _batches_that_stepped,
                    restarting, _is_fresh_start_epoch, _outputs,
                    _data_fetcher, trainer_should_stop,
                    num_training_batches, capabilities, signal_received,
                    exit_kind, stop_raised, hooks_called, dataloader_calls,
                    teardown_calls, faults, epoch_end_outputs,
                    restarting_assigned, _should_reload_train_dl,
                    phase_trace, config_result, fresh_run, phases_run,
                    epoch_entry, fetcher_log, stepped_entry >>

\* FitLoop.on_run_start up to the hooks: the data loaders are rebuilt, which
\* is where the number of training batches is found out (zero for an empty
\* data loader; the model draws sized data loaders only) and after which no
\* reload of the training data is due, and the fetcher is selected and
\* constructed.
OnRunStart ==
    /\ pc = "on_run_start"
    /\ \E n_batches \in {"zero", "some"},
          dataloader_iter \in BOOLEAN,
          inter_batch_parallelism \in BOOLEAN,
          gpu \in BOOLEAN :
          LET cls == _select_data_fetcher(dataloader_iter,
                                          inter_batch_parallelism, gpu)
          IN  /\ num_training_batches' = n_batches
              /\ _should_reload_train_dl' = FALSE
              /\ phase_trace' =
                    << <<"trainer", "reset_train_val_dataloaders">>,
                       <<"fit_loop", "_select_data_fetcher">> >>
              /\ dataloader_calls' =
                    dataloader_calls \cup {"reset_train_val_dataloaders"}
              /\ capabilities' =
                    [read |-> TRUE, dataloader_iter |-> dataloader_iter,
                     inter_batch_parallelism |-> inter_batch_parallelism,
                     gpu |-> gpu]
              /\ IF cls = "MisconfigurationException"
                 THEN /\ pc' = "teardown"
                      /\ exit_kind' = "misconfiguration"
                      /\ UNCHANGED << _data_fetcher, _is_fresh_start_epoch,
                                      fetcher_log >>
                 ELSE /\ fetcher_log' =
                            [fetcher_log EXCEPT
                               !.constructed = @ + 1,
                               !.dropped = IF _data_fetcher # NoFetcher
                                           THEN @ + 1 ELSE @]
                      /\ _data_fetcher' =
                            [kind |-> cls,
                             prefetch_batches |->
                                prefetch_batches(n_batches,
                                                 inter_batch_parallelism)]
                      /\ _is_fresh_start_epoch' = TRUE
                      /\ pc' = "on_train_start"
                      /\ UNCHANGED exit_kind
    /\ UNCHANGED << limits, config, global_step, _batches_that_stepped,
                    epoch_progress, restarting, _outputs,
                    trainer_should_stop, signal_received, stop_raised,
                    hooks_called, teardown_calls, faults, epoch_end_outputs,
                    restarting_assigned, config_result, fresh_run,
                    phases_run, epoch_entry, stepped_entry >>

\* The on_train_start hooks, which end on_run_start.
OnTrainStartHooks ==
    /\ pc = "on_train_start"
    /\ hooks_called' = hooks_called \cup
          Parties({"callback", "model", "strategy"}, "on_train_start")
    /\ phase_trace' = phase_trace \o on_train_start_calls
    /\ capabilities' = NoCapabilities
    /\ pc' = "done_check"
    /\ UNCHANGED << limits, config, global_step, _batches_that_stepped,
                    epoch_progress, restarting, _is_fresh_start_epoch,
                    _outputs, _data_fetcher, trainer_should_stop,
                    num_training_batches, signal_received, exit_kind,
                    stop_raised, dataloader_calls, teardown_calls, faults,
                    epoch_end_outputs, restarting_assigned,
                    _should_reload_train_dl, config_result, fresh_run,
                    phases_run, epoch_entry, fetcher_log, stepped_entry >>

\* `while not self.done`: done is evaluated and writes the stop flag back.
DoneCheck ==
    /\ pc = "done_check"
    /\ trainer_should_stop' = should_stop_written
    /\ pc' = IF done THEN "on_run_end" ELSE "on_advance_start"
    /\ phase_trace' = << >>
    /\ UNCHANGED << limits, config, global_step, _batches_that_stepped,
                    epoch_progress, restarting, _is_fresh_start_epoch,
                    _outputs, _data_fetcher, num_training_batches,
                    capabilities, signal_received, exit_kind, stop_raised,
                    hooks_called, dataloader_calls, teardown_calls, faults,
                    epoch_end_outputs, restarting_assigned,
                    _should_reload_train_dl, config_result, fresh_run,
                    phases_run, epoch_entry, fetcher_log, stepped_entry >>

-----------------------------------------------------------------------------
\* The phases of one epoch

\* The reload made whenever it is due, in the first epoch too.
resets_whenever_due(is_fresh_start_epoch, should_reload) == should_reload

\* `if not self._is_fresh_start_epoch and
\*     self.trainer._data_connector._should_reload_train_dl`
resets_train_dataloader(is_fresh_start_epoch, should_reload) ==
    ~is_fresh_start_epoch /\ should_reload

\* FitLoop.on_advance_start up to increment_ready.  A reload of the training
\* data stops being due once it is made.  The guard on ready bounds the
\* model only: a run with a finite limit never meets it.
OnAdvanceStart ==
    /\ pc = "on_advance_start"
    /\ epoch_progress.ready < EpochCap
    /\ LET reload == resets_train_dataloader(_is_fresh_start_epoch,
                                             _should_reload_train_dl)
       IN  /\ dataloader_calls' =
                 IF reload
                 THEN dataloader_calls \cup {"reset_train_dataloader"}
                 ELSE dataloader_calls
           /\ _should_reload_train_dl' =
                 IF reload THEN FALSE ELSE _should_reload_train_dl
           /\ phase_trace' =
                 (IF reload THEN << <<"trainer", "reset_train_dataloader">> >>
                            ELSE << >>)
                 \o << <<"progress", "increment_ready">> >>
    /\ _is_fresh_start_epoch' = FALSE
    /\ _outputs' = << >>
    /\ epoch_entry' = epoch_progress
    /\ phases_run' = [phases_run EXCEPT !.on_advance_start = @ + 1]
    /\ epoch_progress' = increment_ready(epoch_progress)
    /\ pc' = "epoch_start_hooks"
    /\ UNCHANGED << limits, config, global_step, _batches_that_stepped,
                    restarting, _data_fetcher, trainer_should_stop,
                    num_training_batches, capabilities, signal_received,
                    exit_kind, stop_raised, hooks_called, teardown_calls,
                    faults, epoch_end_outputs, restarting_assigned,
                    config_result, fresh_run, fetcher_log, stepped_entry >>

\* The rest of on_advance_start: the start-of-epoch hooks, then
\* increment_started.
EpochStartHooks ==
    /\ pc = "epoch_start_hooks"
    /\ hooks_called' = hooks_called
          \cup Parties({"logger", "callback", "model"}, "on_epoch_start")
          \cup Parties({"callback", "model"}, "on_train_epoch_start")
    /\ phase_trace' = phase_trace \o epoch_start_calls
                          \o << <<"progress", "increment_started">> >>
    /\ epoch_progress' = increment_started(epoch_progress)
    /\ pc' = "advance"
    /\ UNCHANGED << limits, config, global_step, _batches_that_stepped,
                    restarting, _is_fresh_start_epoch, _outputs,
                    _data_fetcher, trainer_should_stop,
                    num_training_batches, capabilities, signal_received,
                    exit_kind, stop_raised, dataloader_calls,
                    teardown_calls, faults, epoch_end_outputs,
                    restarting_assigned, _should_reload_train_dl,
                    config_result, fresh_run, phases_run, epoch_entry,
                    fetcher_log, stepped_entry >>

\* The inner loop's step count after an epoch of `steps` optimizer steps (the
\* epoch loop is not part of fit_loop.py; design document, section 6: it
\* keeps its own step count and limits).  It stops at max_steps.
steps_after_epoch(count, steps) ==
    IF max_steps # -1 /\ count < max_steps /\ count + steps > max_steps
    THEN max_steps
    ELSE count + steps

\* FitLoop.advance: one whole epoch of the inner loop.
Advance ==
    /\ pc = "advance"
    /\ _data_fetcher # NoFetcher
    /\ \E steps \in 1..MaxStepsPerEpoch,
          epoch_outputs \in {<< >>, <<"step_output">>} :
          /\ global_step' = steps_after_epoch(global_step, steps)
          /\ _batches_that_stepped' =
                _batches_that_stepped + (global_step' - global_step)
          /\ _outputs' = epoch_outputs
    /\ stepped_entry' = _batches_that_stepped'
    /\ phase_trace' = << <<"epoch_loop", "run">> >>
    /\ phases_run' = [phases_run EXCEPT !.advance = @ + 1]
    /\ pc' = "on_advance_end"
    /\ UNCHANGED << limits, config, epoch_progress, restarting,
                    _is_fresh_start_epoch, _data_fetcher,
                    trainer_should_stop, num_training_batches, capabilities,
                    signal_received, exit_kind, stop_raised, hooks_called,
                    dataloader_calls, teardown_calls, faults,
                    epoch_end_outputs, restarting_assigned,
                    _should_reload_train_dl, config_result, fresh_run,
                    epoch_entry, fetcher_log >>

\* training_epoch_end called whenever the model overrides it.
training_epoch_end_called_if_overridden(overridden, outputs) == overridden

\* `if is_overridden("training_epoch_end", model) and self._outputs`
training_epoch_end_called(overridden, outputs) ==
    overridden /\ outputs # << >>

\* The return value of training_epoch_end never checked.
epoch_end_outputs_unchecked(called, returned) == FALSE

\* `if epoch_end_outputs is not None: raise MisconfigurationException`
epoch_end_outputs_rejected(called, returned) == called /\ returned = "value"

\* increment_processed not made before the end-of-epoch hooks.
progress_not_yet_processed(p) == p

\* `self.epoch_progress.increment_processed()`, made before the end-of-epoch
\* hooks: the counter these hooks find.
progress_at_end_hooks(p) == increment_processed(p)

\* FitLoop.on_advance_end up to increment_processed.  `returned` is what
\* the model's training_epoch_end returns.
OnAdvanceEnd ==
    /\ pc = "on_advance_end"
    /\ phases_run' = [phases_run EXCEPT !.on_advance_end = @ + 1]
    /\ \E returned \in {"None", "value"} :
          LET called == training_epoch_end_called(
                           training_epoch_end_overridden, _outputs)
              raises == epoch_end_outputs_rejected(called, returned)
          IN  /\ called \/ returned = "None"
              /\ raises => faults < MaxFaults
              /\ epoch_end_outputs' = IF called THEN returned ELSE "None"
              /\ hooks_called' = hooks_called
                    \cup {<<"logger", "epoch_end_reached">>}
                    \cup (IF called THEN {<<"model", "training_epoch_end">>}
                                    ELSE {})
              /\ phase_trace' =
                    << <<"logger", "epoch_end_reached">> >>
                    \o (IF called
                        THEN << <<"model", "training_epoch_end">> >>
                        ELSE << >>)
                    \o (IF raises
                        THEN << >>
                        ELSE << <<"progress", "increment_processed">> >>)
              /\ IF raises
                 THEN /\ pc' = "teardown"
                      /\ exit_kind' = "misconfiguration"
                      /\ faults' = faults + 1
                      /\ UNCHANGED << _outputs, epoch_progress >>
                 ELSE /\ _outputs' = << >>
                      /\ epoch_progress' =
                            progress_at_end_hooks(epoch_progress)
                      /\ pc' = "epoch_end_hooks"
                      /\ UNCHANGED << exit_kind, faults >>
    /\ UNCHANGED << limits, config, global_step, _batches_that_stepped,
                    restarting, _is_fresh_start_epoch, _data_fetcher,
                    trainer_should_stop, num_training_batches, capabilities,
                    signal_received, stop_raised, dataloader_calls,
                    teardown_calls, restarting_assigned,
                    _should_reload_train_dl, config_result, fresh_run,
                    epoch_entry, fetcher_log, stepped_entry >>

\* `self.epoch_loop._batches_that_stepped -= 1`: the metrics of the epoch
\* are logged on the last step of the epoch.
batches_that_stepped_for_logging(stepped) == stepped - 1

\* The step count left as it was for the logging.
batches_that_stepped_not_restored(stepped) == stepped

\* `self.epoch_loop._batches_that_stepped += 1`
batches_that_stepped_restored(stepped) == stepped + 1

\* on_advance_end from the end-of-epoch hooks to the decrement of the step
\* count the loggers read (the scheduler update in between changes nothing
\* the loop holds).
EpochEndHooks ==
    /\ pc = "epoch_end_hooks"
    /\ hooks_called' = hooks_called
          \cup Parties({"callback", "model"}, "on_train_epoch_end")
          \cup Parties({"callback", "model"}, "on_epoch_end")
          \cup {<<"logger", "on_epoch_end">>}
    /\ phase_trace' = phase_trace \o epoch_end_calls
          \o << <<"epoch_loop", "_num_ready_batches_reached">>,
                <<"progress", "increment_completed">>,
                <<"epoch_loop", "_batches_that_stepped -= 1">> >>
    /\ epoch_progress' = increment_completed(epoch_progress)
    /\ _batches_that_stepped' = batches_that_stepped_for_logging(
                                   _batches_that_stepped)
    /\ pc' = "update_train_epoch_metrics"
    /\ UNCHANGED << limits, config, global_step, restarting,
                    _is_fresh_start_epoch, _outputs, _data_fetcher,
                    trainer_should_stop, num_training_batches, capabilities,
                    signal_received, exit_kind, stop_raised,
                    dataloader_calls, teardown_calls, faults,
                    epoch_end_outputs, restarting_assigned,
                    _should_reload_train_dl, config_result, fresh_run,
                    phases_run, epoch_entry, fetcher_log, stepped_entry >>

\* The signal check that exits whether or not a signal was received.
_exit_always == TRUE

\* `self.trainer._exit_gracefully_on_signal()`: the run is left if the
\* process has been notified.
_exit_gracefully_on_signal == signal_received

\* The end of on_advance_end: the epoch metrics are logged, the step count
\* is restored, and the run exits if the process has been signalled (the
\* process then ends, and the signal with it).
UpdateTrainEpochMetrics ==
    /\ pc = "update_train_epoch_metrics"
    /\ hooks_called' =
          hooks_called \cup {<<"logger", "update_train_epoch_metrics">>}
    /\ phase_trace' = phase_trace
          \o << <<"logger", "update_train_epoch_metrics">>,
                <<"epoch_loop", "_batches_that_stepped += 1">>,
                <<"trainer", "_exit_gracefully_on_signal">> >>
    /\ _batches_that_stepped' = batches_that_stepped_restored(
                                   _batches_that_stepped)
    /\ IF _exit_gracefully_on_signal
       THEN pc' = "teardown" /\ exit_kind' = "interrupted"
       ELSE pc' = "done_check" /\ UNCHANGED exit_kind
    /\ signal_received' = FALSE
    /\ UNCHANGED << limits, config, global_step, epoch_progress, restarting,
                    _is_fresh_start_epoch, _outputs, _data_fetcher,
                    trainer_should_stop, num_training_batches, capabilities,
                    stop_raised, dataloader_calls, teardown_calls, faults,
                    epoch_end_outputs, restarting_assigned,
                    _should_reload_train_dl, config_result, fresh_run,
                    phases_run, epoch_entry, fetcher_log, stepped_entry >>

\* FitLoop.on_run_end
OnRunEnd ==
    /\ pc = "on_run_end"
    /\ hooks_called' = hooks_called \cup
          Parties({"callback", "model", "strategy"}, "on_train_end")
    /\ phase_trace' = on_train_end_calls
    /\ pc' = "teardown"
    /\ exit_kind' = "finished"
    /\ UNCHANGED << limits, config, global_step, _batches_that_stepped,
                    epoch_progress, restarting, _is_fresh_start_epoch,
                    _outputs, _data_fetcher, trainer_should_stop,
                    num_training_batches, capabilities, signal_received,
                    stop_raised, dataloader_calls, teardown_calls, faults,
                    epoch_end_outputs, restarting_assigned,
                    _should_reload_train_dl, config_result, fresh_run,
                    phases_run, epoch_entry, fetcher_log, stepped_entry >>

\* teardown() that tears the fetcher down and keeps the reference.
_data_fetcher_kept(fetcher) == fetcher

\* `if self._data_fetcher is not None: ...; self._data_fetcher = None`: the
\* reference teardown() leaves.
_data_fetcher_released(fetcher) == NoFetcher

\* FitLoop.teardown: the fetcher is torn down if there is one.
Teardown ==
    /\ pc = "teardown"
    /\ fetcher_log' = [fetcher_log EXCEPT
                         !.torn_down = IF _data_fetcher # NoFetcher
                                       THEN @ + 1 ELSE @]
    /\ _data_fetcher' = _data_fetcher_released(_data_fetcher)
    /\ teardown_calls' = teardown_calls + 1
    /\ phase_trace' = << >>
    /\ capabilities' = NoCapabilities
    /\ pc' = "idle"
    /\ UNCHANGED << limits, config, global_step, _batches_that_stepped,
                    epoch_progress, restarting, _is_fresh_start_epoch,
                    _outputs, trainer_should_stop, num_training_batches,
                    signal_received, exit_kind, stop_raised, hooks_called,
                    dataloader_calls, faults, epoch_end_outputs,
                    restarting_assigned, _should_reload_train_dl,
                    config_result, fresh_run, phases_run, epoch_entry,
                    stepped_entry >>

-----------------------------------------------------------------------------
\* What the surroundings do while the loop runs

\* A callback or the model sets trainer.should_stop.
RequestStop ==
    /\ pc \in UserCodePcs \ {"on_run_end"}
    /\ ~trainer_should_stop
    /\ trainer_should_stop' = TRUE
    /\ stop_raised' = TRUE
    /\ UNCHANGED << limits, config, global_step, _batches_that_stepped,
                    epoch_progress, restarting, _is_fresh_start_epoch,
                    _outputs, _data_fetcher, num_training_batches,
                    capabilities, signal_received, pc, exit_kind,
                    hooks_called, dataloader_calls, teardown_calls, faults,
                    epoch_end_outputs, restarting_assigned,
                    _should_reload_train_dl, phase_trace, config_result,
                    fresh_run, phases_run, epoch_entry, fetcher_log,
                    stepped_entry >>

\* A reload of the training data becomes due (reload_dataloaders_every_n_epochs
\* epochs have gone by); on_advance_start reads the flag next.
ReloadDue ==
    /\ pc = "on_advance_start"
    /\ ~_should_reload_train_dl
    /\ _should_reload_train_dl' = TRUE
    /\ UNCHANGED << limits, config, global_step, _batches_that_stepped,
                    epoch_progress, restarting, _is_fresh_start_epoch,
                    _outputs, epoch_end_outputs, _data_fetcher,
                    trainer_should_stop, num_training_batches, capabilities,
                    signal_received, pc, exit_kind, stop_raised,
                    hooks_called, dataloader_calls, teardown_calls,
                    restarting_assigned, faults, phase_trace, config_result,
                    fresh_run, phases_run, epoch_entry, fetcher_log,
                    stepped_entry >>

\* The process is signalled to terminate.
Signal ==
    /\ pc \in RunningPcs \ {"teardown"}
    /\ ~signal_received
    /\ signal_received' = TRUE
    /\ UNCHANGED << limits, config, global_step, _batches_that_stepped,
                    epoch_progress, restarting, _is_fresh_start_epoch,
                    _outputs, _data_fetcher, trainer_should_stop,
                    num_training_batches, capabilities, pc, exit_kind,
                    stop_raised, hooks_called, dataloader_calls,
                    teardown_calls, epoch_end_outputs, restarting_assigned,
                    _should_reload_train_dl, faults, phase_trace,
                    config_result, fresh_run, phases_run, epoch_entry,
                    fetcher_log, stepped_entry >>

\* A hook, the inner loop or a logger raises: the exception leaves run().
HookRaises ==
    /\ pc \in RaisingPcs
    /\ faults < MaxFaults
    /\ faults' = faults + 1
    /\ pc' = "teardown"
    /\ exit_kind' = "exception"
    /\ UNCHANGED << limits, config, global_step, _batches_that_stepped,
                    epoch_progress, restarting, _is_fresh_start_epoch,
                    _outputs, _data_fetcher, trainer_should_stop,
                    num_training_batches, capabilities, signal_received,
                    stop_raised, hooks_called, dataloader_calls,
                    teardown_calls, epoch_end_outputs, restarting_assigned,
                    _should_reload_train_dl, phase_trace, config_result,
                    fresh_run, phases_run, epoch_entry, fetcher_log,
                    stepped_entry >>

-----------------------------------------------------------------------------
\* The steps of the loop itself, and those of its surroundings.
LoopStep ==
    \/ Reset
    \/ OnRunStart
    \/ OnTrainStartHooks
    \/ DoneCheck
    \/ OnAdvanceStart
    \/ EpochStartHooks
    \/ Advance
    \/ OnAdvanceEnd
    \/ EpochEndHooks
    \/ UpdateTrainEpochMetrics
    \/ OnRunEnd
    \/ Teardown

Next ==
    \/ Run
    \/ \E value \in BOOLEAN : SetRestarting(value)
    \/ \E mn \in 0..MaxMin, mx \in LimitInputs : Construct(mn, mx)
    \/ \E value \in {None} \cup {Some(n) : n \in LimitInputs} :
          SetMaxSteps(value)
    \/ LoopStep
    \/ RequestStop
    \/ ReloadDue
    \/ Signal
    \/ HookRaises

Spec == Init /\ [][Next]_vars

\* Once entered, run() keeps executing: the loop is a single thread that
\* nothing suspends.
FairSpec == Spec /\ WF_vars(LoopStep)

-----------------------------------------------------------------------------
\* Properties

EpochPcs == {"on_advance_start", "epoch_start_hooks", "advance",
             "on_advance_end", "epoch_end_hooks",
             "update_train_epoch_metrics"}

\* A step that evaluates done: the loop test, or the skip test at entry.
DoneEvaluated ==
    \/ pc = "done_check" /\ pc' # "done_check"
    \/ pc = "idle" /\ pc' # "idle"

Ordered(p) ==
    p.ready >= p.started /\ p.started >= p.processed
                         /\ p.processed >= p.completed

AllEqual(p) ==
    p.ready = p.completed /\ p.started = p.completed
                          /\ p.processed = p.completed

\* C3: in every reachable state the epoch counter satisfies
\* ready >= started >= processed >= completed, and a step of a phase method
\* (any step but the restart reconciliation of the setter and of reset)
\* raises each field by at most 1 and lowers none.
C3_CounterOrdered ==
    /\ [](Ordered(epoch_progress))
    /\ [][pc \notin {"idle", "reset"} =>
            \A f \in {"ready", "started", "processed", "completed"} :
               /\ epoch_progress'[f] >= epoch_progress[f]
               /\ epoch_progress'[f] <= epoch_progress[f] + 1]_vars

\* C3 witness: a restart flag has been honoured after an exception left an
\* epoch unfinished, and a later epoch has completed.
C3_Witness ==
    /\ pc = "done_check"
    /\ restarting
    /\ faults >= 1
    /\ epoch_progress.completed >= 2
    /\ epoch_progress.ready > epoch_progress.completed

\* C4 (amended): from ready = started = processed = N and completed = N - 1,
\* assigning the restarting flag yields completed = N, and the flag keeps the
\* assigned value: assigning true leaves it true, the restart is honoured.
C4_ReconcileInterrupted ==
    [][\A value \in BOOLEAN :
         (/\ SetRestarting(value)
          /\ epoch_progress.ready = epoch_progress.processed
          /\ epoch_progress.started = epoch_progress.processed
          /\ epoch_progress.completed = epoch_progress.processed - 1)
         => /\ epoch_progress'.completed = epoch_progress.processed
            /\ epoch_progress'.processed = epoch_progress.processed
            /\ restarting' = value]_vars

\* C4 as stated: after the reconciliation of ready = started = processed = N,
\* completed = N - 1 the restarting flag is false.
C4_Original ==
    [][\A value \in BOOLEAN :
         (/\ SetRestarting(value)
          /\ epoch_progress.ready = epoch_progress.processed
          /\ epoch_progress.started = epoch_progress.processed
          /\ epoch_progress.completed = epoch_progress.processed - 1)
         => /\ epoch_progress'.completed = epoch_progress.processed
            /\ restarting' = FALSE]_vars

\* C4 witness: true was assigned after an epoch was interrupted in its
\* end-of-epoch hooks; the counter is reconciled and the flag is set.
C4_Witness ==
    /\ pc = "idle"
    /\ exit_kind = "exception"
    /\ restarting_assigned = "True"
    /\ restarting
    /\ AllEqual(epoch_progress)
    /\ epoch_progress.completed >= 1

\* C5: an assignment to restarting leaves the flag true only if one of ready,
\* started, processed differed from completed when it was made; when all
\* four were equal the flag becomes false and no counter field changes.
C5_HonouredOnlyWhenInterrupted ==
    [][(\E value \in BOOLEAN : SetRestarting(value)) =>
          /\ restarting' => ~AllEqual(epoch_progress)
          /\ AllEqual(epoch_progress) =>
                ~restarting' /\ epoch_progress' = epoch_progress]_vars

\* C5 witness: true was assigned after a run that finished its epochs
\* cleanly, and the flag is false.
C5_Witness ==
    /\ pc = "idle"
    /\ exit_kind = "finished"
    /\ restarting_assigned = "True"
    /\ ~restarting
    /\ AllEqual(epoch_progress)
    /\ epoch_progress.completed >= 1

\* C6: in every reachable state done returns
\* stopBySteps \/ stopByEpochs \/ shouldStop \/ zeroBatches, with
\* stopBySteps = (maxSteps # -1 /\ globalStep >= maxSteps),
\* stopByEpochs = (maxEpochs # -1 /\ processed >= maxEpochs),
\* shouldStop = (stop requested /\ (minEpochs = 0 \/ processed >= minEpochs)
\*              /\ (minSteps unset \/ globalStep >= minSteps)),
\* zeroBatches = (number of training batches = 0).
C6_DoneValue ==
    done <=>
       \/ max_steps # -1 /\ global_step >= max_steps
       \/ max_epochs # -1 /\ epoch_progress.processed >= max_epochs
       \/ /\ trainer_should_stop
          /\ (min_epochs = 0 \/ epoch_progress.processed >= min_epochs)
          /\ (~min_steps.set \/ global_step >= min_steps.val)
       \/ num_training_batches = "zero"

\* C6 witness: done is about to be evaluated with a stop requested, a
\* min_steps of 0 and min_epochs met, and no other reason to stop.
C6_Witness ==
    /\ pc = "done_check"
    /\ trainer_should_stop
    /\ min_steps = Some(0)
    /\ min_epochs = 1
    /\ epoch_progress.processed = 1
    /\ ~stop_steps /\ ~stop_epochs
    /\ num_training_batches = "some"
    /\ done

\* C7: every evaluation of done, the one made through skip included, writes
\* the stop flag back: afterwards the flag is true iff it was true before and
\* both minimum guards are met (so a suppressed request is cleared and a
\* false flag is never raised), and no counter and no limit changes.
C7_StopFlagWrittenBack ==
    [][DoneEvaluated =>
          /\ trainer_should_stop' =
                (/\ trainer_should_stop
                 /\ (min_epochs = 0 \/ epoch_progress.processed >= min_epochs)
                 /\ (~min_steps.set \/ global_step >= min_steps.val))
          /\ UNCHANGED << epoch_progress, global_step,
                          _batches_that_stepped, limits >>]_vars

\* C7 witness: the stop flag was set when run() was entered with min_epochs
\* unmet; the evaluation made through skip has cleared it.
C7_Witness ==
    /\ pc = "reset"
    /\ stop_raised
    /\ ~trainer_should_stop
    /\ ~met_min_epochs

\* C8: the outcome of the fetcher selection is a function of the raw-iterator
\* signature, the parallel-prefetch flag and the accelerator kind, the cases
\* taken in the order given: the signature gives the iterator-passthrough
\* fetcher; else the flag with a GPU gives the parallel fetcher and the flag
\* without a GPU a configuration error; else the default fetcher.
C8_FetcherSelection ==
    capabilities.read =>
       LET failed == pc = "teardown" /\ exit_kind = "misconfiguration"
                        /\ _data_fetcher = NoFetcher
           selected(kind) == ~failed /\ _data_fetcher.kind = kind
       IN  /\ capabilities.dataloader_iter
              => selected("DataLoaderIterDataFetcher")
           /\ ~capabilities.dataloader_iter
              /\ capabilities.inter_batch_parallelism /\ capabilities.gpu
              => selected("InterBatchParallelDataFetcher")
           /\ ~capabilities.dataloader_iter
              /\ capabilities.inter_batch_parallelism /\ ~capabilities.gpu
              => failed
           /\ ~capabilities.dataloader_iter
              /\ ~capabilities.inter_batch_parallelism
              => selected("DataFetcher")

\* C8 witness: the parallel-prefetch flag without a GPU has ended the run
\* with a configuration error.
C8_Witness ==
    /\ capabilities.read
    /\ ~capabilities.dataloader_iter
    /\ capabilities.inter_batch_parallelism
    /\ ~capabilities.gpu
    /\ exit_kind = "misconfiguration"
    /\ pc = "teardown"

-----------------------------------------------------------------------------
\* A limit other than -1 that the run has not reached yet.
LimitAhead ==
    \/ max_epochs # -1 /\ epoch_progress.processed < max_epochs
    \/ max_steps # -1 /\ global_step < max_steps

MinimaMet ==
    /\ (min_epochs = 0 \/ epoch_progress.processed >= min_epochs)
    /\ (~min_steps.set \/ global_step >= min_steps.val)

HardLimitOrNoBatches ==
    stop_steps \/ stop_epochs \/ num_training_batches = "zero"

\* C2 (amended): if an early stop is requested while min_epochs or min_steps
\* is not yet satisfied and neither hard limit is reached, the evaluation of
\* done lets the run continue and clears the request; the loop is left for
\* an early stop only at an evaluation at which the request is raised (still
\* or again) and both minima are satisfied, and it is left at every such
\* evaluation.
C2_EarlyStopWaitsForMinima ==
    /\ [][(DoneEvaluated /\ trainer_should_stop /\ ~MinimaMet
              /\ ~HardLimitOrNoBatches /\ limit_train_batches # 0)
            => /\ pc' \in {"on_advance_start", "reset"}
               /\ ~trainer_should_stop']_vars
    /\ [][(DoneEvaluated /\ trainer_should_stop /\ MinimaMet)
            => pc' \in {"on_run_end", "teardown"}]_vars
    /\ []((pc = "on_run_end" /\ ~HardLimitOrNoBatches)
            => trainer_should_stop /\ MinimaMet)

\* C2 as stated: once an early stop has been requested in a run, the run
\* stops at the first evaluation of done at which both minima are satisfied,
\* so no epoch starts with both minima satisfied after a request.
C2_Original ==
    (pc = "on_advance_start" /\ stop_raised) => ~MinimaMet

\* C2 witness: a request raised in the first epoch with min_epochs unmet has
\* been suppressed and cleared; the next epoch is about to start.
C2_Witness ==
    /\ pc = "on_advance_start"
    /\ stop_raised
    /\ ~trainer_should_stop
    /\ ~MinimaMet
    /\ faults = 0

\* C9 (amended): a run entered with a configured batch limit of exactly 0,
\* or with the number of training batches already 0, has skip true, changes
\* no counter, invokes no hook and makes no data-source construction call.
\* (A batch count found to be 0 only when on_run_start builds the data
\* loaders comes after the skip test: that run starts no epoch either, but
\* it has built the data loaders and invokes the run-start and run-end
\* hooks.)
C9_SkippedRunDoesNothing ==
    /\ [][(pc = "idle" /\ pc' # "idle"
              /\ (limit_train_batches = 0 \/ num_training_batches = "zero"))
            => skip /\ pc' = "teardown" /\ exit_kind' = "skipped"]_vars
    /\ [][(exit_kind' = "skipped" /\ ~(pc = "idle" /\ pc' = "idle"))
            => /\ pc' \in {"teardown", "idle"}
               /\ epoch_progress' = epoch_progress
               /\ global_step' = global_step
               /\ hooks_called' = {}
               /\ dataloader_calls' = {}]_vars
    /\ [](num_training_batches = "zero" => pc \notin EpochPcs)

\* C9 as stated: a run with zero training batches (batch limit 0, or number
\* of training batches 0) is skipped, invokes no hook and makes no
\* data-source construction call.
C9_Original ==
    (exit_kind # "none"
        /\ (limit_train_batches = 0 \/ num_training_batches = "zero"))
    => /\ exit_kind = "skipped"
       /\ hooks_called = {}
       /\ dataloader_calls = {}

\* C9 witness: a run entered with the number of training batches already 0
\* (found out by an earlier run) and a non-zero batch limit was skipped and
\* torn down.
C9_Witness ==
    /\ pc = "idle"
    /\ exit_kind = "skipped"
    /\ num_training_batches = "zero"
    /\ limit_train_batches # 0
    /\ hooks_called = {}
    /\ teardown_calls = 1

\* C10: when training_epoch_end returns a value, the run fails at once with a
\* configuration error: processed is not incremented, no end-of-epoch hook
\* is called and no further epoch starts; teardown() runs next, exactly once.
C10_EpochEndReturnIsFatal ==
    /\ [](epoch_end_outputs # "None" =>
            /\ exit_kind = "misconfiguration"
            /\ pc \in {"teardown", "idle"}
            /\ teardown_calls = (IF pc = "idle" THEN 1 ELSE 0)
            /\ _outputs # << >>)
    /\ [][(epoch_end_outputs' # "None" /\ ~(pc = "idle" /\ pc' = "idle"))
            => /\ epoch_progress' = epoch_progress
               /\ hooks_called' \ hooks_called \subseteq
                     {<<"logger", "epoch_end_reached">>,
                      <<"model", "training_epoch_end">>}]_vars

\* C10 witness: training_epoch_end returned a value in the second epoch of a
\* run; the run has been torn down once, with the epoch's processed count
\* not raised.
C10_Witness ==
    /\ pc = "idle"
    /\ epoch_end_outputs = "value"
    /\ exit_kind = "misconfiguration"
    /\ teardown_calls = 1
    /\ epoch_progress.started = 2
    /\ epoch_progress.processed = 1
    /\ <<"model", "on_epoch_end">> \in hooks_called

-----------------------------------------------------------------------------
\* The order of the calls of one phase method

HookEvents == {"on_train_start", "on_epoch_start", "on_train_epoch_start",
               "on_train_epoch_end", "on_epoch_end", "on_train_end"}

InTrace(c) == \E i \in 1..Len(phase_trace) : phase_trace[i] = c

\* Call b is made only after call a has been made.
Precedes(a, b) ==
    \A j \in 1..Len(phase_trace) :
       phase_trace[j] = b => \E i \in 1..(j - 1) : phase_trace[i] = a

\* Call a is never made after call b.
NotAfter(a, b) ==
    \A i, j \in 1..Len(phase_trace) :
       (phase_trace[i] = a /\ phase_trace[j] = b) => i < j

\* C11 (amended): within every phase method the hooks of one event are called
\* on the callbacks, then on the model, then on the strategy; one event's
\* hooks are all called before the next event's.  The logger connector is
\* notified of on_epoch_start before the callbacks and the model, and of
\* epoch_end_reached before any end-of-epoch hook; of on_epoch_end it is
\* notified after the callbacks' and the model's on_epoch_end hooks.
C11_HookOrder ==
    /\ \A e \in HookEvents :
          /\ Precedes(<<"callback", e>>, <<"model", e>>)
          /\ Precedes(<<"model", e>>, <<"strategy", e>>)
    /\ Precedes(<<"logger", "on_epoch_start">>,
                <<"callback", "on_epoch_start">>)
    /\ Precedes(<<"model", "on_epoch_start">>,
                <<"callback", "on_train_epoch_start">>)
    /\ Precedes(<<"logger", "epoch_end_reached">>,
                <<"model", "training_epoch_end">>)
    /\ Precedes(<<"logger", "epoch_end_reached">>,
                <<"callback", "on_train_epoch_end">>)
    /\ Precedes(<<"model", "on_train_epoch_end">>,
                <<"callback", "on_epoch_end">>)
    /\ Precedes(<<"model", "on_epoch_end">>, <<"logger", "on_epoch_end">>)

\* C11 as stated: no callback or model hook of an event is called before the
\* logger notification of that event, and no model hook before the callback
\* hook.
C11_Original ==
    \A e \in HookEvents :
       /\ NotAfter(<<"logger", e>>, <<"callback", e>>)
       /\ NotAfter(<<"logger", e>>, <<"model", e>>)
       /\ NotAfter(<<"callback", e>>, <<"model", e>>)

\* C11 witness: on_advance_end has called training_epoch_end and all its
\* end-of-epoch hooks, the logger connector's on_epoch_end last of them.
C11_Witness ==
    /\ pc = "update_train_epoch_metrics"
    /\ InTrace(<<"model", "training_epoch_end">>)
    /\ InTrace(<<"callback", "on_epoch_end">>)
    /\ InTrace(<<"logger", "on_epoch_end">>)

-----------------------------------------------------------------------------
\* C12: invalid limits are rejected and never stored.  The constructor called
\* with max_epochs < -1 raises MisconfigurationException and stores nothing;
\* the max_steps setter called with a value < -1 raises it and leaves the
\* stored max_steps as it was, called with None it stores -1, and called
\* with any other value it stores that value; so in every reachable state
\* the stored max_steps and max_epochs are >= -1.
C12_InvalidLimitsRejected ==
    /\ [](max_steps >= -1 /\ max_epochs >= -1)
    /\ [][\A mn \in 0..MaxMin, mx \in LimitInputs :
            (Construct(mn, mx) /\ mx < -1)
            => /\ config_result'.raised = "MisconfigurationException"
               /\ UNCHANGED << limits, epoch_progress >>]_vars
    /\ [][\A value \in {None} \cup {Some(n) : n \in LimitInputs} :
            SetMaxSteps(value)
            => IF value.set /\ value.val < -1
               THEN /\ config_result'.raised = "MisconfigurationException"
                    /\ max_steps' = max_steps
               ELSE /\ config_result'.raised = "none"
                    /\ max_steps' = (IF value.set THEN value.val ELSE -1)]_vars

\* C12 witness: the max_steps setter has raised, and the stored max_steps is
\* still the largest valid limit of the model.
C12_Witness ==
    /\ pc = "idle"
    /\ config_result = [call |-> "max_steps",
                        raised |-> "MisconfigurationException"]
    /\ max_steps = MaxMax

-----------------------------------------------------------------------------
\* Each field of the epoch counter is one above its value at the entry of
\* the epoch.
EpochCounted ==
    epoch_progress = [ready |-> epoch_entry.ready + 1,
                      started |-> epoch_entry.started + 1,
                      processed |-> epoch_entry.processed + 1,
                      completed |-> epoch_entry.completed + 1]

InterruptExit == pc = "teardown" /\ exit_kind = "interrupted"

\* C13 (amended): a signal takes effect only at the check that ends
\* on_advance_end.  The run exits as interrupted only from that check and
\* only with a signal received; at that moment on_advance_end has made all
\* its calls (end-of-epoch hooks, increment_completed, the epoch metric
\* update), so each counter field is one above its value at the entry of the
\* epoch, and all four are equal if they were equal when the epoch was
\* entered.  The signal itself changes neither the position of the run nor
\* a counter, and with a signal pending the phases of an epoch are left for
\* teardown only by an exception.
C13_InterruptAtSafePoint ==
    /\ [][(exit_kind' = "interrupted" /\ exit_kind # "interrupted")
            => pc = "update_train_epoch_metrics" /\ signal_received]_vars
    /\ [](InterruptExit =>
            /\ EpochCounted
            /\ AllEqual(epoch_entry) => AllEqual(epoch_progress)
            /\ InTrace(<<"model", "on_epoch_end">>)
            /\ InTrace(<<"logger", "on_epoch_end">>)
            /\ InTrace(<<"progress", "increment_completed">>)
            /\ InTrace(<<"logger", "update_train_epoch_metrics">>)
            /\ phase_trace[Len(phase_trace)] =
                  <<"trainer", "_exit_gracefully_on_signal">>)
    /\ [][(signal_received' /\ ~signal_received)
            => UNCHANGED << pc, exit_kind, epoch_progress >>]_vars
    /\ [][(signal_received /\ pc' = "teardown"
               /\ pc \in EpochPcs \ {"update_train_epoch_metrics"})
            => exit_kind' \in {"exception", "misconfiguration"}]_vars

\* C13 as stated: whenever the run exits because of the interrupt check,
\* ready = started = processed = completed.
C13_Original == InterruptExit => AllEqual(epoch_progress)

\* C13 witness: the second epoch of a run has been completed and the run
\* exits at the signal check, all four fields equal.
C13_Witness ==
    /\ InterruptExit
    /\ phases_run.on_advance_end = 2
    /\ AllEqual(epoch_progress)
    /\ faults = 0

-----------------------------------------------------------------------------
-----------------------------------------------------------------------------
\* The epoch counter, counted from the entry of the epoch.
SinceEntry(r, s, p, c) ==
    epoch_progress = [ready |-> epoch_entry.ready + r,
                      started |-> epoch_entry.started + s,
                      processed |-> epoch_entry.processed + p,
                      completed |-> epoch_entry.completed + c]

StartHooks == {epoch_start_calls[i] : i \in 1..Len(epoch_start_calls)}

EndHooks == {<<party, hook>> : party \in {"callback", "model"},
                              hook \in {"on_train_epoch_end", "on_epoch_end"}}

\* C15 (amended): in every epoch increment_ready precedes all start-of-epoch
\* hooks and increment_started follows them; increment_processed precedes
\* the on_train_epoch_end and on_epoch_end hooks, and increment_completed
\* follows them and the epoch-granularity scheduler update.  So the
\* start-of-epoch hooks run with ready one above its value at the entry of
\* the epoch, and the end-of-epoch hooks with ready, started and processed
\* one above theirs and completed as it was: in an epoch entered with the
\* four fields equal, ready = started = processed = completed + 1 whenever
\* an end-of-epoch hook runs.
C15_IncrementsAroundHooks ==
    /\ \A h \in StartHooks :
          /\ Precedes(<<"progress", "increment_ready">>, h)
          /\ Precedes(h, <<"progress", "increment_started">>)
    /\ \A h \in EndHooks :
          /\ Precedes(<<"progress", "increment_processed">>, h)
          /\ Precedes(h, <<"progress", "increment_completed">>)
    /\ Precedes(<<"epoch_loop", "_num_ready_batches_reached">>,
                <<"progress", "increment_completed">>)
    /\ pc = "epoch_start_hooks" => SinceEntry(1, 0, 0, 0)
    /\ pc \in {"advance", "on_advance_end"} => SinceEntry(1, 1, 0, 0)
    /\ pc = "epoch_end_hooks" =>
          /\ SinceEntry(1, 1, 1, 0)
          /\ AllEqual(epoch_entry) =>
                /\ epoch_progress.ready = epoch_progress.completed + 1
                /\ epoch_progress.started = epoch_progress.completed + 1
                /\ epoch_progress.processed = epoch_progress.completed + 1
    /\ pc = "update_train_epoch_metrics" => SinceEntry(1, 1, 1, 1)

\* C15 as stated: whenever an end-of-epoch callback or model hook runs,
\* ready = started = processed = completed + 1.
C15_Original ==
    pc = "epoch_end_hooks" =>
       /\ epoch_progress.ready = epoch_progress.completed + 1
       /\ epoch_progress.started = epoch_progress.completed + 1
       /\ epoch_progress.processed = epoch_progress.completed + 1

\* C15 witness: the end-of-epoch hooks of the second epoch of a run are about
\* to run, in an epoch entered with the four fields equal to 1.
C15_Witness ==
    /\ pc = "epoch_end_hooks"
    /\ AllEqual(epoch_entry)
    /\ epoch_entry.completed = 1
    /\ epoch_progress = [ready |-> 2, started |-> 2, processed |-> 2,
                         completed |-> 1]

-----------------------------------------------------------------------------
\* The counter as the end-of-epoch hooks of the last allowed epoch find it.
LastEpochShape ==
    /\ max_epochs # -1
    /\ epoch_progress.ready = max_epochs
    /\ epoch_progress.started = max_epochs
    /\ epoch_progress.processed = max_epochs
    /\ epoch_progress.completed = max_epochs - 1

\* C16: resuming from the counter of the end-of-epoch hooks of the last
\* allowed epoch (ready = started = processed = max_epochs, completed =
\* max_epochs - 1, max_epochs # -1) runs no further epoch.  An assignment to
\* restarting leaves completed = max_epochs and the other fields as they
\* were; run() entered with processed = max_epochs finds done true at its
\* first check, whatever completed is, and is skipped; and a skipped run
\* enters no phase of an epoch.
C16_ResumeAtLastEpoch ==
    /\ [][\A value \in BOOLEAN :
            (SetRestarting(value) /\ LastEpochShape)
            => epoch_progress' = [ready |-> max_epochs,
                                  started |-> max_epochs,
                                  processed |-> max_epochs,
                                  completed |-> max_epochs]]_vars
    /\ [][(pc = "idle" /\ pc' # "idle" /\ max_epochs # -1
               /\ epoch_progress.processed = max_epochs)
            => /\ done
               /\ pc' = "teardown"
               /\ exit_kind' = "skipped"
               /\ UNCHANGED epoch_progress]_vars
    /\ [](exit_kind = "skipped" =>
            /\ pc \in {"teardown", "idle"}
            /\ phases_run = NoPhases)

\* C16 witness: after an exception in the end-of-epoch hooks of the last
\* allowed epoch the restart was honoured, the counter reconciled, and the
\* run that followed was skipped.
C16_Witness ==
    /\ pc = "idle"
    /\ exit_kind = "skipped"
    /\ restarting
    /\ faults = 1
    /\ max_epochs >= 1
    /\ epoch_progress = [ready |-> max_epochs, started |-> max_epochs,
                         processed |-> max_epochs, completed |-> max_epochs]
    /\ phases_run = NoPhases

-----------------------------------------------------------------------------
\* A run entered with nothing done before, with max_epochs >= 0 and no step
\* limit, with training batches, and so far without early stop, interrupt
\* or error.
FreshRunToMaxEpochs ==
    /\ fresh_run
    /\ max_epochs >= 0
    /\ max_steps = -1
    /\ limit_train_batches # 0
    /\ num_training_batches # "zero"
    /\ ~stop_raised
    /\ exit_kind \in {"running", "finished", "skipped"}

\* C17: a fresh run with max_epochs = M >= 0, max_steps = -1, a non-zero
\* number of training batches, no early stop, no interrupt and no error
\* enters on_advance_start, advance and on_advance_end M times each, one
\* after the other in every epoch, and ends with ready = started = processed
\* = completed = M; with M = 0 it enters no phase and calls no hook.
C17_ExactlyMaxEpochs ==
    FreshRunToMaxEpochs =>
       /\ phases_run.on_advance_start <= max_epochs
       /\ phases_run.advance \in {phases_run.on_advance_start - 1,
                                   phases_run.on_advance_start}
       /\ phases_run.on_advance_end \in {phases_run.advance - 1,
                                          phases_run.advance}
       /\ epoch_progress.ready = phases_run.on_advance_start
       /\ pc = "idle" =>
             /\ phases_run = [on_advance_start |-> max_epochs,
                              advance |-> max_epochs,
                              on_advance_end |-> max_epochs]
             /\ epoch_progress = [ready |-> max_epochs,
                                  started |-> max_epochs,
                                  processed |-> max_epochs,
                                  completed |-> max_epochs]
       /\ max_epochs = 0 => phases_run = NoPhases /\ hooks_called = {}

\* C17 witness: a fresh run with the largest max_epochs of the model has
\* finished.
C17_Witness ==
    /\ FreshRunToMaxEpochs
    /\ pc = "idle"
    /\ exit_kind = "finished"
    /\ max_epochs = MaxMax
    /\ phases_run.on_advance_end = MaxMax
    /\ epoch_progress.completed = MaxMax

-----------------------------------------------------------------------------
\* C18: the training data is never reset in the on_advance_start of the
\* first epoch after on_run_start, even when a reload is due; in every later
\* epoch of the run it is reset in on_advance_start iff a reload is due; and
\* _is_fresh_start_epoch is true from on_run_start until the first
\* on_advance_start and false from then until the next on_run_start.
C18_ReloadAfterFirstEpoch ==
    /\ [][(pc = "on_advance_start" /\ pc' = "epoch_start_hooks")
            => LET reset_made ==
                      \E i \in 1..Len(phase_trace') :
                         phase_trace'[i] =
                            <<"trainer", "reset_train_dataloader">>
               IN  /\ phases_run.on_advance_start = 0 => ~reset_made
                   /\ phases_run.on_advance_start > 0
                         => (reset_made <=> _should_reload_train_dl)
                   /\ reset_made =>
                         "reset_train_dataloader" \in dataloader_calls'
          ]_vars
    /\ [](phases_run.on_advance_start > 0 => ~_is_fresh_start_epoch)
    /\ []((fetcher_log.constructed = 1 /\ phases_run.on_advance_start = 0)
            => _is_fresh_start_epoch)

\* C18 witness: the second epoch of a run has reset the training data, which
\* was due, in its on_advance_start.
C18_Witness ==
    /\ pc = "epoch_start_hooks"
    /\ phases_run.on_advance_start = 2
    /\ dataloader_calls = {"reset_train_val_dataloaders",
                           "reset_train_dataloader"}
    /\ InTrace(<<"trainer", "reset_train_dataloader">>)
    /\ ~_should_reload_train_dl

-----------------------------------------------------------------------------
-----------------------------------------------------------------------------
\* The pcs of on_advance_end.
AdvanceEndPcs == {"on_advance_end", "epoch_end_hooks",
                  "update_train_epoch_metrics"}

\* C20 (amended): on_advance_end leaves _batches_that_stepped as it found
\* it on every exit but one: up to the decrement the count is the one at
\* entry, update_train_epoch_metrics is called with the count one less, and
\* the count is the one at entry again when on_advance_end returns or exits
\* on a signal (and when it fails on the return value of training_epoch_end,
\* before the decrement); if update_train_epoch_metrics raises, the count
\* stays one less.  The decrement follows increment_completed, and the
\* re-increment follows the metric update and precedes the signal check.
C20_StepCountRestored ==
    /\ [](pc \in {"on_advance_end", "epoch_end_hooks"}
            => _batches_that_stepped = stepped_entry)
    /\ [](pc = "update_train_epoch_metrics"
            => _batches_that_stepped = stepped_entry - 1)
    /\ [][(pc \in AdvanceEndPcs /\ pc' \notin AdvanceEndPcs) =>
            IF pc = "update_train_epoch_metrics" /\ exit_kind' = "exception"
            THEN _batches_that_stepped' = stepped_entry - 1
            ELSE _batches_that_stepped' = stepped_entry
          ]_vars
    /\ [](pc \in RunningPcs =>
            /\ Precedes(<<"progress", "increment_completed">>,
                        <<"epoch_loop", "_batches_that_stepped -= 1">>)
            /\ Precedes(<<"epoch_loop", "_batches_that_stepped -= 1">>,
                        <<"logger", "update_train_epoch_metrics">>)
            /\ Precedes(<<"logger", "update_train_epoch_metrics">>,
                        <<"epoch_loop", "_batches_that_stepped += 1">>)
            /\ Precedes(<<"epoch_loop", "_batches_that_stepped += 1">>,
                        <<"trainer", "_exit_gracefully_on_signal">>))

\* C20 as stated: on every exit from on_advance_end _batches_that_stepped
\* is what it was at entry.
C20_Original ==
    [][(pc \in AdvanceEndPcs /\ pc' \notin AdvanceEndPcs)
         => _batches_that_stepped' = stepped_entry]_vars

\* C20 witness: on_advance_end has returned after the decrement, the metric
\* update and the re-increment, with the step count of its entry, which the
\* epoch had raised.
C20_Witness ==
    /\ pc = "done_check"
    /\ InTrace(<<"epoch_loop", "_batches_that_stepped -= 1">>)
    /\ InTrace(<<"epoch_loop", "_batches_that_stepped += 1">>)
    /\ phases_run.on_advance_end = 2
    /\ _batches_that_stepped = stepped_entry
    /\ _batches_that_stepped > 1


=============================================================================
